---- MODULE Spec2Model ----
(***************************************************************************)
(* A model of pyblp/construction.py: build_id_data, build_ownership and    *)
(* build_blp_instruments.  Every builder is a pure function of its         *)
(* arguments; a behaviour of the model is one call, from the arguments     *)
(* (chosen by Init) through the statements of the function to the value    *)
(* returned or the exception raised.                                       *)
(*                                                                         *)
(* Arrays are sequences indexed from 1, so row r of the model is row r-1   *)
(* of the numpy array.  Firm and market IDs are integers.  A float is      *)
(* modelled by the integer it holds; numpy.nan is the value NaN below.     *)
(***************************************************************************)
EXTENDS Integers, Sequences, FiniteSets

VARIABLES
    pc,             \* position of the call
    T, J, F,        \* build_id_data: the arguments T, J and F
    mergers,        \* build_id_data: the argument mergers
    firm_ids_list,  \* build_id_data: the local list of firm ID columns
    id_data,        \* build_id_data: the returned recarray
    product_data,   \* build_ownership, build_blp_instruments: the argument
    kappa_specification,  \* build_ownership: the argument
    kappa,          \* build_ownership: kappa_specification after lines 176-180
    ownership,      \* build_ownership: the returned matrix
    firms_index,    \* build_blp_instruments: the argument
    X,              \* build_blp_instruments: the matrix of build_matrix
    firm_ids,       \* build_blp_instruments: the selected column of firm IDs
    instruments,    \* build_blp_instruments: the returned matrix
    raised          \* the exception raised by the call, or NoError

idVars == <<T, J, F, mergers, firm_ids_list, id_data>>
ownershipVars == <<kappa_specification, kappa, ownership>>
blpVars == <<firms_index, X, firm_ids, instruments>>
vars == <<pc, idVars, product_data, ownershipVars, blpVars, raised>>

----------------------------------------------------------------------------
(* Bounds of the arguments.                                                *)

MaxT == 2
MaxF == 4
MaxJ == 6
MaxMergeT == 1
MaxMergeF == 2
MaxMergeJ == 2
MaxPairs == 2
MaxMergers == 2
MaxRows == 3
MaxMarket == 1
MaxFirm == 1
MaxBase == 3

----------------------------------------------------------------------------
(* Values.                                                                 *)

\* The exception of a raise statement: its type and the line that raises it.
NoError == [type |-> "none", line |-> 0]
Error(type, line) == [type |-> type, line |-> line]

\* A key or a value of a merger dict: an int, or something that is no int.
IntId(n) == [isint |-> TRUE, val |-> n]
NonInt == [isint |-> FALSE, val |-> 0]

\* An entry of mergers: a dict (its items in iteration order), or no dict.
Dict(items) == [isdict |-> TRUE, items |-> items]
NotADict == [isdict |-> FALSE, items |-> <<>>]

NoTable == [market_ids |-> <<>>, firm_ids |-> <<>>]

\* What extract_matrix returns for a field: a matrix (a sequence of rows), or
\* None when product_data has no such field.
Field(matrix) == [present |-> TRUE, matrix |-> matrix]
None == [present |-> FALSE, matrix |-> <<>>]

\* An entry of a float matrix: a number, or numpy.nan.
Num(x) == [nan |-> FALSE, v |-> x]
NaN == [nan |-> TRUE, v |-> 0]

\* The argument kappa_specification: None, a function of two firm IDs, or
\* something that cannot be called.
KappaNone == [kind |-> "None", fn |-> "-"]
KappaCallable(fn) == [kind |-> "callable", fn |-> fn]
KappaOther == [kind |-> "other", fn |-> "-"]

\* The variables of a function that is not the one called.
NoIdCall ==
    /\ T = 0 /\ J = 0 /\ F = 0
    /\ mergers = <<>>
    /\ firm_ids_list = <<>>
    /\ id_data = NoTable
NoOwnershipCall ==
    /\ kappa_specification = KappaNone
    /\ kappa = KappaNone
    /\ ownership = <<>>
NoBlpCall ==
    /\ firms_index = 0
    /\ X = <<>>
    /\ firm_ids = <<>>
    /\ instruments = <<>>

----------------------------------------------------------------------------
(* build_id_data                                                           *)

\* ItemIsValid with the upper end of the range left out.
ItemIsValidHalfOpen(item, nF) ==
    /\ item.f1.isint
    /\ item.f2.isint
    /\ 0 <= item.f1.val /\ item.f1.val < nF - 1
    /\ 0 <= item.f2.val /\ item.f2.val < nF - 1

\* One item of a mapping passes the check of line 67.
ItemIsValid(item, nF) ==
    /\ item.f1.isint
    /\ item.f2.isint
    /\ 0 <= item.f1.val /\ item.f1.val <= nF - 1
    /\ 0 <= item.f2.val /\ item.f2.val <= nF - 1

RECURSIVE ValidateItems(_, _, _)
ValidateItems(items, nF, i) ==
    IF i > Len(items) THEN NoError
    ELSE IF ~ItemIsValid(items[i], nF) THEN Error("ValueError", 68)
    ELSE ValidateItems(items, nF, i + 1)

RECURSIVE ValidateMergers(_, _, _)
ValidateMergers(ms, nF, i) ==
    IF i > Len(ms) THEN NoError
    ELSE IF ~ms[i].isdict THEN Error("TypeError", 65)
    ELSE LET e == ValidateItems(ms[i].items, nF, 1)
         IN  IF e # NoError THEN e ELSE ValidateMergers(ms, nF, i + 1)

\* ValidateIdArguments with the mergers checked before T, F and J.
ValidateIdArgumentsMergersFirst(nT, nJ, nF, ms) ==
    LET e == ValidateMergers(ms, nF, 1)
    IN  IF e # NoError THEN e
        ELSE IF nT < 1 \/ nF < 1 THEN Error("ValueError", 60)
        ELSE IF nJ < nF THEN Error("ValueError", 62)
        ELSE NoError

\* The validation of the arguments: the first raise statement reached.
ValidateIdArguments(nT, nJ, nF, ms) ==
    IF nT < 1 \/ nF < 1 THEN Error("ValueError", 60)
    ELSE IF nJ < nF THEN Error("ValueError", 62)
    ELSE ValidateMergers(ms, nF, 1)

\* BaselineFirmId dividing the position by the whole number of products per firm.
BaselineFirmIdByQuotient(j, nJ, nF) == j \div (nJ \div nF)

\* np.floor(j * F / J) for the position j of a product in its market: the
\* quotient of two small integers is floored exactly.
BaselineFirmId(j, nJ, nF) == (j * nF) \div nJ

\* np.floor(np.tile(np.arange(J), T) * F / J)
BaselineFirmIds(nT, nJ, nF) ==
    [r \in 1..(nT * nJ) |-> BaselineFirmId((r - 1) % nJ, nJ, nF)]

\* The loop of lines 74-75: the items are applied one after the other to the
\* column as it stands.
RECURSIVE ApplyMapping(_, _, _)
ApplyMapping(ids, items, i) ==
    IF i > Len(items) THEN ids
    ELSE ApplyMapping([r \in DOMAIN ids |->
                          IF ids[r] = items[i].f1.val THEN items[i].f2.val
                          ELSE ids[r]],
                      items, i + 1)

\* ChangedColumns with each mapping applied to the column built last.
RECURSIVE ChangedColumnsCompound(_, _, _)
ChangedColumnsCompound(list, ms, i) ==
    IF i > Len(ms) THEN list
    ELSE ChangedColumnsCompound(
             Append(list, ApplyMapping(list[Len(list)], ms[i].items, 1)), ms, i + 1)

\* Lines 71-76: the baseline column, then one changed copy of it per mapping.
RECURSIVE ChangedColumns(_, _, _)
ChangedColumns(list, ms, i) ==
    IF i > Len(ms) THEN list
    ELSE ChangedColumns(Append(list, ApplyMapping(list[1], ms[i].items, 1)),
                        ms, i + 1)

FirmIdsList(nT, nJ, nF, ms) ==
    ChangedColumns(<<BaselineFirmIds(nT, nJ, nF)>>, ms, 1)

\* np.repeat(np.arange(T), J)
MarketIds(nT, nJ) == [r \in 1..(nT * nJ) |-> (r - 1) \div nJ]

\* np.stack(firm_ids_list, axis=1): row r holds entry r of every column.
Stack(list) ==
    [r \in DOMAIN list[1] |-> [c \in DOMAIN list |-> list[c][r]]]

ValidateId ==
    /\ pc = "id_validate"
    /\ raised' = ValidateIdArguments(T, J, F, mergers)
    /\ pc' = IF raised' = NoError THEN "id_firms" ELSE "raised"
    /\ UNCHANGED <<T, J, F, mergers, firm_ids_list, id_data>>
    /\ UNCHANGED <<product_data, ownershipVars, blpVars>>

BuildFirmIds ==
    /\ pc = "id_firms"
    /\ firm_ids_list' = FirmIdsList(T, J, F, mergers)
    /\ pc' = "id_structure"
    /\ UNCHANGED <<T, J, F, mergers, id_data, raised>>
    /\ UNCHANGED <<product_data, ownershipVars, blpVars>>

StructureIds ==
    /\ pc = "id_structure"
    /\ id_data' = [market_ids |-> MarketIds(T, J),
                   firm_ids |-> Stack(firm_ids_list)]
    /\ pc' = "id_done"
    /\ UNCHANGED <<T, J, F, mergers, firm_ids_list, raised>>
    /\ UNCHANGED <<product_data, ownershipVars, blpVars>>

----------------------------------------------------------------------------
(* The arguments of build_id_data.                                         *)

\* The ints tried as keys and values, and the items made of them.
IntIds == {IntId(n) : n \in -1..(MaxMergeF - 1)}
IntItems == [f1 : IntIds, f2 : IntIds]

\* Items of which the key or the value may be no int.
AnyItems == [f1 : IntIds \cup {NonInt}, f2 : IntIds \cup {NonInt}]

RECURSIVE SeqsUpTo(_, _)
SeqsUpTo(S, n) ==
    IF n = 0 THEN {<<>>}
    ELSE LET shorter == SeqsUpTo(S, n - 1)
         IN  shorter \cup {Append(s, x) : s \in {t \in shorter : Len(t) = n - 1}, x \in S}

\* The items of a dict: no key twice.
DictItems ==
    {s \in SeqsUpTo(IntItems, MaxPairs) :
        \A i, k \in DOMAIN s : i # k => s[i].f1 # s[k].f1}

\* One mapping of up to MaxPairs items, or of one item of any kind.
OneMapping ==
    {<<Dict(s)>> : s \in DictItems} \cup {<<Dict(<<it>>)>> : it \in AnyItems}

\* Up to MaxMergers entries: no dict, or a dict of at most one item.
SmallEntries == {NotADict, Dict(<<>>)} \cup {Dict(<<it>>) : it \in IntItems}
SeveralMappings == SeqsUpTo(SmallEntries, MaxMergers)

InitId ==
    /\ pc = "id_validate"
    /\ \/ /\ T \in 0..MaxT
          /\ F \in 0..MaxF
          /\ J \in 0..MaxJ
          /\ mergers = <<>>
       \/ /\ T \in 0..MaxMergeT
          /\ F \in 0..MaxMergeF
          /\ J \in 0..MaxMergeJ
          /\ mergers \in OneMapping \cup SeveralMappings
    /\ firm_ids_list = <<>>
    /\ id_data = NoTable
    /\ product_data = [market_ids |-> None, firm_ids |-> None]
    /\ NoOwnershipCall
    /\ NoBlpCall
    /\ raised = NoError

NextId == ValidateId \/ BuildFirmIds \/ StructureIds

SpecId == InitId /\ [][NextId]_vars

----------------------------------------------------------------------------
(* build_ownership                                                         *)

\* The function a callable stands for.  "default" is the lambda of line 178,
\* np.where(f == g, 1, 0); "pair_code" is a caller's function that returns a
\* different number for every ordered pair of firm IDs; np.vectorize applies
\* a caller's function to each pair of elements.
CallKappa(fn, f, g) ==
    IF fn = "default" THEN (IF f = g THEN 1 ELSE 0)
    ELSE f * (MaxFirm + MaxF + 1) + g

\* ResolveKappa with the default also used for a value that cannot be called.
ResolveKappaFallback(spec) ==
    IF spec.kind = "callable" THEN KappaCallable(spec.fn)
    ELSE KappaCallable("default")

\* Lines 177-180: the default for None, the vectorized function for a
\* callable, anything else as it is.
ResolveKappa(spec) ==
    IF spec.kind = "None" THEN KappaCallable("default")
    ELSE IF spec.kind = "callable" THEN KappaCallable(spec.fn)
    ELSE spec

\* Lines 169-182: the first raise statement reached.
ValidateOwnershipArguments(market_ids, firm_matrix, spec) ==
    IF ~market_ids.present THEN Error("KeyError", 170)
    ELSE IF ~firm_matrix.present THEN Error("KeyError", 172)
    ELSE IF Len(market_ids.matrix[1]) > 1 THEN Error("ValueError", 174)
    ELSE IF ResolveKappa(spec).kind # "callable" THEN Error("ValueError", 182)
    ELSE NoError

RECURSIVE SortedSeq(_)
SortedSeq(S) ==
    IF S = {} THEN <<>>
    ELSE LET least == CHOOSE x \in S : \A y \in S : x <= y
         IN  <<least>> \o SortedSeq(S \ {least})

RECURSIVE FirstSeen(_, _)
FirstSeen(column, i) ==
    IF i > Len(column) THEN <<>>
    ELSE IF \E k \in 1..(i - 1) : column[k] = column[i] THEN FirstSeen(column, i + 1)
    ELSE <<column[i]>> \o FirstSeen(column, i + 1)

\* Unique with the IDs in the order of their first rows.
UniqueFirstSeen(column) == FirstSeen(column, 1)

\* np.unique: the sorted unique entries of an array.
Unique(column) == SortedSeq({column[r] : r \in DOMAIN column})

\* Column c of a matrix.
Column(matrix, c) == [r \in DOMAIN matrix |-> matrix[r][c]]

\* ids[market_ids.flat == t]: the entries of the rows of market t, in row order.
RECURSIVE Select(_, _, _, _)
Select(ids, market_column, t, r) ==
    IF r > Len(ids) THEN <<>>
    ELSE (IF market_column[r] = t THEN <<ids[r]>> ELSE <<>>)
             \o Select(ids, market_column, t, r + 1)

\* np.unique(market_ids, return_counts=True)[1].max()
MaxMarketSize(market_column) ==
    LET sizes == {Len(Select(market_column, market_column, t, 1)) :
                     t \in {market_column[r] : r \in DOMAIN market_column}}
    IN  CHOOSE n \in sizes : \A m \in sizes : m <= n

\* OwnershipBlock with the firm of the column as the first argument.
OwnershipBlockTransposed(ids_t, nJ, fn) ==
    [j \in 1..Len(ids_t) |->
        [k \in 1..nJ |-> IF k <= Len(ids_t) THEN Num(CallKappa(fn, ids_t[k], ids_t[j]))
                         ELSE NaN]]

\* Lines 193-195: tiled_ids_t[j, k] is ids_t[j], so entry (j, k) of the block is
\* kappa(ids_t[j], ids_t[k]); the columns after the block keep numpy.nan.
OwnershipBlock(ids_t, nJ, fn) ==
    [j \in 1..Len(ids_t) |->
        [k \in 1..nJ |-> IF k <= Len(ids_t) THEN Num(CallKappa(fn, ids_t[j], ids_t[k]))
                         ELSE NaN]]

\* np.vstack of the blocks of the markets ts[i], ts[i+1], ...
RECURSIVE StackMarkets(_, _, _, _, _, _)
StackMarkets(ids, market_column, ts, nJ, fn, i) ==
    IF i > Len(ts) THEN <<>>
    ELSE OwnershipBlock(Select(ids, market_column, ts[i], 1), nJ, fn)
             \o StackMarkets(ids, market_column, ts, nJ, fn, i + 1)

\* np.hstack of the stacks of the firm ID columns c, c+1, ...
RECURSIVE StackColumns(_, _, _, _, _)
StackColumns(firm_matrix, market_column, nJ, fn, c) ==
    IF c > Len(firm_matrix[1]) THEN [r \in DOMAIN firm_matrix |-> <<>>]
    ELSE LET stack == StackMarkets(Column(firm_matrix, c), market_column,
                                   Unique(market_column), nJ, fn, 1)
             rest == StackColumns(firm_matrix, market_column, nJ, fn, c + 1)
         IN  [r \in DOMAIN firm_matrix |-> stack[r] \o rest[r]]

ValidateOwnership ==
    /\ pc = "own_validate"
    /\ raised' = ValidateOwnershipArguments(product_data.market_ids,
                                            product_data.firm_ids, kappa_specification)
    /\ kappa' = IF product_data.market_ids.present /\ product_data.firm_ids.present
                   /\ Len(product_data.market_ids.matrix[1]) = 1
                THEN ResolveKappa(kappa_specification) ELSE kappa
    /\ pc' = IF raised' = NoError THEN "own_stack" ELSE "raised"
    /\ UNCHANGED <<idVars, product_data, kappa_specification, ownership, blpVars>>

StackOwnership ==
    /\ pc = "own_stack"
    /\ LET market_column == Column(product_data.market_ids.matrix, 1)
       IN  ownership' = StackColumns(product_data.firm_ids.matrix, market_column,
                                     MaxMarketSize(market_column), kappa.fn, 1)
    /\ pc' = "own_done"
    /\ UNCHANGED <<idVars, product_data, kappa_specification, kappa, raised, blpVars>>

----------------------------------------------------------------------------
(* The arguments of build_ownership.                                       *)

Markets == 0..MaxMarket
Firms == 0..MaxFirm

\* A table of one firm ID column: a sequence of <<market, firm>> rows.
TableOf(rows, width) ==
    [market_ids |-> Field([r \in DOMAIN rows |-> <<rows[r][1]>>]),
     firm_ids |-> Field([r \in DOMAIN rows |->
                            [c \in 1..width |-> rows[r][c + 1]]])]

NarrowTables ==
    {TableOf(rows, 1) : rows \in SeqsUpTo(Markets \X Firms, MaxRows) \ {<<>>}}

\* Tables of two firm ID columns: what build_id_data returns for one mapping
\* of one item, as in the examples of the docstrings.
IdDataTable(nT, nJ, nF, item) ==
    [market_ids |-> Field([r \in 1..(nT * nJ) |-> <<MarketIds(nT, nJ)[r]>>]),
     firm_ids |-> Field(Stack(FirmIdsList(nT, nJ, nF, <<Dict(<<item>>)>>)))]

IdDataTables ==
    {IdDataTable(a[1], a[2], a[3], a[4]) :
        a \in {b \in (1..MaxT) \X (1..MaxJ) \X (1..MaxF)
                      \X [f1 : {IntId(n) : n \in 0..(MaxF - 1)},
                          f2 : {IntId(n) : n \in 0..(MaxF - 1)}] :
                  /\ ValidateIdArguments(b[1], b[2], b[3], <<Dict(<<b[4]>>)>>) = NoError}}

\* The panel of a market of two products before a market of three.
PaddingTables ==
    {TableOf([r \in 1..5 |-> <<IF r <= 2 THEN 0 ELSE 1, firms[r]>>], 1) :
        firms \in [1..5 -> Firms]}

\* A table of one row, with a field left out or a second column of market IDs.
Malformed(table, no_market, no_firm, wide_market) ==
    [market_ids |-> IF no_market THEN None
                    ELSE IF wide_market
                    THEN Field([r \in DOMAIN table.market_ids.matrix |->
                                   table.market_ids.matrix[r] \o table.market_ids.matrix[r]])
                    ELSE table.market_ids,
     firm_ids |-> IF no_firm THEN None ELSE table.firm_ids]

OneRowTables == {TableOf(<<row>>, 2) : row \in Markets \X Firms \X Firms}

InitOwnership ==
    /\ pc = "own_validate"
    /\ \/ /\ product_data \in NarrowTables \cup IdDataTables \cup PaddingTables
          /\ kappa_specification \in {KappaNone, KappaCallable("pair_code")}
       \/ /\ \E table \in OneRowTables : \E no_market, no_firm, wide_market \in BOOLEAN :
                 product_data = Malformed(table, no_market, no_firm, wide_market)
          /\ kappa_specification \in {KappaNone, KappaCallable("pair_code"), KappaOther}
    /\ kappa = kappa_specification
    /\ ownership = <<>>
    /\ NoIdCall
    /\ NoBlpCall
    /\ raised = NoError

NextOwnership == ValidateOwnership \/ StackOwnership

SpecOwnership == InitOwnership /\ [][NextOwnership]_vars

----------------------------------------------------------------------------
(* Groups (pyblp.utilities.basics), after section 4.1 of the specification: *)
(* the sorted unique keys of a key sequence, and for every row the index   *)
(* of its key among them.  A key is a tuple of integers.                   *)

KeyLeq(a, b) ==
    \/ a[1] < b[1]
    \/ a[1] = b[1] /\ (Len(a) = 1 \/ a[2] <= b[2])

RECURSIVE SortedKeys(_)
SortedKeys(S) ==
    IF S = {} THEN <<>>
    ELSE LET least == CHOOSE x \in S : \A y \in S : KeyLeq(x, y)
         IN  <<least>> \o SortedKeys(S \ {least})

Groups(ids) ==
    LET unique == SortedKeys({ids[r] : r \in DOMAIN ids})
    IN  [unique |-> unique,
         codes |-> [r \in DOMAIN ids |->
                       CHOOSE g \in DOMAIN unique : unique[g] = ids[r]]]

\* The sum of column c of the matrix over a set of rows.
RECURSIVE SumOver(_, _, _)
SumOver(matrix, c, rows) ==
    IF rows = {} THEN 0
    ELSE LET r == CHOOSE x \in rows : TRUE
         IN  matrix[r][c] + SumOver(matrix, c, rows \ {r})

\* Groups.sum: one row per unique key, the column sums of its member rows.
GroupSum(groups, matrix) ==
    [g \in DOMAIN groups.unique |->
        [c \in DOMAIN matrix[1] |->
            SumOver(matrix, c, {r \in DOMAIN matrix : groups.codes[r] = g})]]

\* Groups.expand: every row receives the value of its group.
GroupExpand(groups, values) ==
    [r \in DOMAIN groups.codes |-> values[groups.codes[r]]]

----------------------------------------------------------------------------
(* build_blp_instruments                                                   *)

\* Lines 266-269: the first raise statement reached.
ValidateBlpArguments(market_ids, firm_matrix) ==
    IF ~market_ids.present \/ ~firm_matrix.present THEN Error("KeyError", 267)
    ELSE IF Len(market_ids.matrix[1]) > 1 THEN Error("ValueError", 269)
    ELSE NoError

\* firm_ids[:, [firms_index]]: one column, the index counted from 0.
SelectFirmColumn(firm_matrix, index) ==
    [r \in DOMAIN firm_matrix |-> <<firm_matrix[r][index + 1]>>]

\* Lines 275-276: the (market, firm) pair of every row.
PairedIds(market_matrix, firm_column) ==
    [r \in DOMAIN market_matrix |-> <<market_matrix[r][1], firm_column[r][1]>>]

\* The difference of two matrices of one shape.
Minus(A, B) == [r \in DOMAIN A |-> [c \in DOMAIN A[r] |-> A[r][c] - B[r][c]]]

\* Line 284.
OtherBlock(paired_groups, matrix) ==
    Minus(GroupExpand(paired_groups, GroupSum(paired_groups, matrix)), matrix)

\* RivalBlock without the products of the firm itself taken off.
RivalBlockKeepsOther(market_groups, matrix, other) ==
    Minus(GroupExpand(market_groups, GroupSum(market_groups, matrix)), matrix)

\* Line 285.
RivalBlock(market_groups, matrix, other) ==
    Minus(Minus(GroupExpand(market_groups, GroupSum(market_groups, matrix)), matrix),
          other)

LoadIds ==
    /\ pc = "blp_load"
    /\ raised' = ValidateBlpArguments(product_data.market_ids, product_data.firm_ids)
    /\ IF raised' = NoError
       THEN /\ firm_ids' = SelectFirmColumn(product_data.firm_ids.matrix, firms_index)
            /\ pc' = "blp_build"
       ELSE /\ firm_ids' = firm_ids
            /\ pc' = "raised"
    /\ UNCHANGED <<idVars, product_data, ownershipVars, firms_index, X, instruments>>

BuildInstruments ==
    /\ pc = "blp_build"
    /\ LET paired_groups == Groups(PairedIds(product_data.market_ids.matrix, firm_ids))
           market_groups == Groups(product_data.market_ids.matrix)
           other == OtherBlock(paired_groups, X)
           rival == RivalBlock(market_groups, X, other)
       IN  instruments' = [r \in DOMAIN X |-> X[r] \o other[r] \o rival[r]]
    /\ pc' = "blp_done"
    /\ UNCHANGED <<idVars, product_data, ownershipVars, firms_index, X, firm_ids, raised>>

----------------------------------------------------------------------------
(* The arguments of build_blp_instruments.                                 *)

RECURSIVE Power(_, _)
Power(b, n) == IF n = 0 THEN 1 ELSE b * Power(b, n - 1)

\* What build_matrix returns for the table: a constant column, and a column
\* of powers, in which no two sets of up to MaxRows + 2 rows that follow each
\* other have the same sum.
Characteristics(n) ==
    {[r \in 1..n |-> <<1, Power(b, (r - 1) % (MaxRows + 2))>>] : b \in 2..MaxBase}

InitBlp ==
    /\ pc = "blp_load"
    /\ \/ /\ product_data \in NarrowTables
          /\ firms_index = 0
       \/ /\ product_data \in IdDataTables
          /\ firms_index \in 0..1
       \/ /\ \E table \in OneRowTables : \E no_market, no_firm, wide_market \in BOOLEAN :
                 product_data = Malformed(table, no_market, no_firm, wide_market)
          /\ firms_index = 0
    /\ X \in Characteristics(IF product_data.market_ids.present
                            THEN Len(product_data.market_ids.matrix)
                            ELSE Len(product_data.firm_ids.matrix))
    /\ firm_ids = <<>>
    /\ instruments = <<>>
    /\ NoIdCall
    /\ NoOwnershipCall
    /\ raised = NoError

NextBlp == LoadIds \/ BuildInstruments

SpecBlp == InitBlp /\ [][NextBlp]_vars

----------------------------------------------------------------------------
(* Properties of build_id_data.                                            *)

IdArgumentsOk == T >= 1 /\ F >= 1 /\ J >= F

CeilDiv(a, b) == (a + b - 1) \div b

\* Column c of the returned firm IDs, and the baseline column.
FirmColumn(c) == [r \in DOMAIN id_data.firm_ids |-> id_data.firm_ids[r][c]]
Baseline == FirmColumn(1)

\* The number of products of firm f in market t (t from 0) in the column col.
ProductCount(col, t, f) == Cardinality({k \in 1..J : col[t * J + k] = f})

\* C1: build_id_data returns T*J rows in market-major order (the market IDs
\* never decrease, take the values 0..T-1, each J times); the baseline firm
\* column repeats the same J IDs in every market, takes exactly the values
\* 0..F-1, and gives every firm floor(J/F) or ceil(J/F) products per market.
C1_PanelShape ==
    pc = "id_done" =>
        /\ Len(id_data.market_ids) = T * J
        /\ Len(id_data.firm_ids) = T * J
        /\ \A r \in 1..(T * J - 1) : id_data.market_ids[r] <= id_data.market_ids[r + 1]
        /\ {id_data.market_ids[r] : r \in 1..(T * J)} = 0..(T - 1)
        /\ \A t \in 0..(T - 1) :
               Cardinality({r \in 1..(T * J) : id_data.market_ids[r] = t}) = J
        /\ \A r \in 1..(T * J - J) : Baseline[r] = Baseline[r + J]
        /\ {Baseline[r] : r \in 1..(T * J)} = 0..(F - 1)
        /\ \A t \in 0..(T - 1), f \in 0..(F - 1) :
               ProductCount(Baseline, t, f) \in {J \div F, CeilDiv(J, F)}

C1_Witness ==
    /\ pc = "id_done"
    /\ T >= 2 /\ F >= 3 /\ J % F # 0

\* C2: when F does not divide J, the firms with ceil(J/F) products in a market
\* are exactly the firms 0..(J mod F)-1, so the product count never increases
\* with the firm ID.
C2_ExcessToSmallestIds ==
    (pc = "id_done" /\ J % F # 0) =>
        \A t \in 0..(T - 1) :
            /\ \A f \in 0..(F - 1) :
                   (ProductCount(Baseline, t, f) = CeilDiv(J, F)) <=> (f < J % F)
            /\ \A f, g \in 0..(F - 1) :
                   f < g => ProductCount(Baseline, t, f) >= ProductCount(Baseline, t, g)

\* The keys of a mapping.
Keys(items) == {items[i].f1.val : i \in DOMAIN items}

\* C3: in the column of every mapping, a row whose baseline ID is the key of an
\* item holds the value of that item, and a row whose baseline ID is no key of
\* the mapping keeps its baseline ID.
C3_MergerRemapsBaseline ==
    pc = "id_done" =>
        \A m \in DOMAIN mergers : \A r \in DOMAIN id_data.firm_ids :
            /\ \A i \in DOMAIN mergers[m].items :
                   Baseline[r] = mergers[m].items[i].f1.val
                       => id_data.firm_ids[r][m + 1] = mergers[m].items[i].f2.val
            /\ Baseline[r] \notin Keys(mergers[m].items)
                   => id_data.firm_ids[r][m + 1] = Baseline[r]

\* Every key and value of the mapping is an int between lo and hi.
AllIdsWithin(entry, lo, hi) ==
    \A i \in DOMAIN entry.items :
        /\ entry.items[i].f1.isint /\ entry.items[i].f2.isint
        /\ lo <= entry.items[i].f1.val /\ entry.items[i].f1.val <= hi
        /\ lo <= entry.items[i].f2.val /\ entry.items[i].f2.val <= hi

Validated == pc # "id_validate"

NothingBuilt == pc = "raised" /\ firm_ids_list = <<>> /\ id_data = NoTable

\* C4 as stated: ValueError whenever T < 1, F < 1 or J < F; with T, F and J
\* valid, TypeError whenever some entry of mergers is no mapping; a failing
\* call has built no column and returns no table.
C4_Original ==
    Validated =>
        /\ ~IdArgumentsOk => raised.type = "ValueError"
        /\ (IdArgumentsOk /\ \E m \in DOMAIN mergers : ~mergers[m].isdict)
               => raised.type = "TypeError"
        /\ raised # NoError => NothingBuilt

\* C4: ValueError whenever T < 1, F < 1 or J < F; with T, F and J valid, an
\* entry of mergers that is no mapping makes the call fail, with TypeError when
\* every entry before it is a mapping of valid firm IDs (and with the
\* ValueError of the first invalid mapping before it otherwise); a failing
\* call has built no column and returns no table.
C4_ValidationOrder ==
    Validated =>
        /\ ~IdArgumentsOk => raised.type = "ValueError"
        /\ \A m \in DOMAIN mergers :
               (IdArgumentsOk /\ ~mergers[m].isdict) =>
                   /\ raised # NoError
                   /\ (\A k \in 1..(m - 1) :
                           mergers[k].isdict /\ AllIdsWithin(mergers[k], 0, F - 1))
                          => raised.type = "TypeError"
                   /\ (\E k \in 1..(m - 1) :
                           /\ mergers[k].isdict /\ ~AllIdsWithin(mergers[k], 0, F - 1)
                           /\ \A h \in 1..(k - 1) : mergers[h].isdict)
                          => raised.type = "ValueError"
        /\ raised # NoError => NothingBuilt
        /\ raised = NoError => pc \in {"id_firms", "id_structure", "id_done"}

C4_Witness ==
    /\ pc = "raised"
    /\ raised.type = "TypeError"
    /\ Len(mergers) = 2
    /\ mergers[1].isdict /\ mergers[1].items # <<>>
    /\ ~mergers[2].isdict

AllDicts == \A m \in DOMAIN mergers : mergers[m].isdict

\* C5 as stated: with T, F and J valid and only mappings in mergers, the call
\* is accepted exactly when every key and value is an int in [0, F-1), and is
\* rejected with ValueError otherwise.
C5_Original ==
    (Validated /\ IdArgumentsOk /\ AllDicts) =>
        /\ raised = NoError <=> \A m \in DOMAIN mergers : AllIdsWithin(mergers[m], 0, F - 2)
        /\ raised # NoError => raised.type = "ValueError"

\* C5: with T, F and J valid and only mappings in mergers, the call is
\* accepted exactly when every key and value is an int in the closed range
\* [0, F-1], and is rejected with ValueError otherwise.
C5_ClosedRange ==
    (Validated /\ IdArgumentsOk /\ AllDicts) =>
        /\ raised = NoError <=> \A m \in DOMAIN mergers : AllIdsWithin(mergers[m], 0, F - 1)
        /\ raised # NoError => raised.type = "ValueError"

C5_Witness ==
    /\ pc = "id_done"
    /\ \E m \in DOMAIN mergers : \E i \in DOMAIN mergers[m].items :
           mergers[m].items[i].f1.val = F - 1 /\ mergers[m].items[i].f2.val = 0
    /\ F >= 2

\* C10: the table has one firm column per mapping after the baseline column;
\* the baseline column is the one built without mergers, and the column of
\* mapping m is the one built when mapping m is the only mapping.
C10_ColumnsIndependent ==
    pc = "id_done" =>
        /\ \A r \in DOMAIN id_data.firm_ids :
               Len(id_data.firm_ids[r]) = 1 + Len(mergers)
        /\ Baseline = FirmIdsList(T, J, F, <<>>)[1]
        /\ \A m \in DOMAIN mergers :
               FirmColumn(m + 1) = FirmIdsList(T, J, F, <<mergers[m]>>)[2]

C10_Witness ==
    /\ pc = "id_done"
    /\ Len(mergers) = 2
    /\ FirmColumn(2) # Baseline
    /\ FirmColumn(3) # FirmColumn(2)

----------------------------------------------------------------------------
(* Properties of build_ownership.                                          *)

NumRows == Len(product_data.market_ids.matrix)
NumFirmColumns == Len(product_data.firm_ids.matrix[1])
MarketOf(r) == product_data.market_ids.matrix[r][1]
FirmOf(r, c) == product_data.firm_ids.matrix[r][c]

\* The number of products of market t, and the largest such number.
MarketSize(t) == Cardinality({r \in 1..NumRows : MarketOf(r) = t})
LargestMarket ==
    CHOOSE n \in {MarketSize(MarketOf(r)) : r \in 1..NumRows} :
        \A r \in 1..NumRows : MarketSize(MarketOf(r)) <= n

\* Where product r of the table is found in the result: its row, when the
\* markets are laid out in increasing order of their IDs and the products of
\* a market in the order of the table, and its place within its market.
ResultRow(r) ==
    Cardinality({s \in 1..NumRows :
        \/ MarketOf(s) < MarketOf(r)
        \/ MarketOf(s) = MarketOf(r) /\ s <= r})
PlaceInMarket(r) == Cardinality({s \in 1..r : MarketOf(s) = MarketOf(r)})

\* The entry of the result for product r, firm column c and column k of the
\* stack of c, the stacks being `width' columns wide.
Entry(r, c, k, width) == ownership[ResultRow(r)][(c - 1) * width + k]

\* The caller's cooperation function, or the identity when there is none.
Cooperation(f, g) ==
    IF kappa_specification.kind = "None" THEN (IF f = g THEN 1 ELSE 0)
    ELSE CallKappa(kappa_specification.fn, f, g)

\* C6: for every firm column and every two products r and s of one market,
\* the entry in the row of r and the column of s is the cooperation of the firm
\* of r (first argument) and the firm of s (second argument); without a
\* cooperation function it is 1 when the firms are equal and 0 otherwise, 1 on
\* the diagonal, and symmetric.
C6_BlockIsCooperation ==
    pc = "own_done" =>
        LET width == LargestMarket
        IN  \A c \in 1..NumFirmColumns : \A r, s \in 1..NumRows :
                MarketOf(r) = MarketOf(s) =>
                    LET entry == Entry(r, c, PlaceInMarket(s), width)
                    IN  /\ entry = Num(Cooperation(FirmOf(r, c), FirmOf(s, c)))
                        /\ kappa_specification.kind = "None" =>
                               /\ entry = Num(IF FirmOf(r, c) = FirmOf(s, c) THEN 1 ELSE 0)
                               /\ r = s => entry = Num(1)
                               /\ entry = Entry(s, c, PlaceInMarket(r), width)

C6_Witness ==
    /\ pc = "own_done"
    /\ kappa_specification.kind = "callable"
    /\ \E r, s \in 1..NumRows :
           /\ r < s /\ MarketOf(r) = MarketOf(s) /\ FirmOf(r, 1) # FirmOf(s, 1)
           /\ Entry(r, 1, PlaceInMarket(s), LargestMarket)
                  # Entry(s, 1, PlaceInMarket(r), LargestMarket)

\* C7: the result has one row per product and (firm columns) * (largest
\* market) columns; the markets are stacked in increasing order of their IDs
\* and keep the order of their products; in the stack of each firm column, the
\* row of a product holds numbers in the first J_t columns (the diagonal entry
\* being the cooperation of its own firm with itself) and numpy.nan in exactly
\* the columns after them, J_t being the size of its market.
C7_StackedAndPadded ==
    pc = "own_done" =>
        LET width == LargestMarket
        IN  /\ Len(ownership) = NumRows
            /\ \A i \in 1..NumRows : Len(ownership[i]) = NumFirmColumns * width
            /\ \A c \in 1..NumFirmColumns : \A r \in 1..NumRows :
                   /\ \A k \in 1..width :
                          Entry(r, c, k, width).nan <=> k > MarketSize(MarketOf(r))
                   /\ Entry(r, c, PlaceInMarket(r), width)
                          = Num(Cooperation(FirmOf(r, c), FirmOf(r, c)))

C7_Witness ==
    /\ pc = "own_done"
    /\ Column(product_data.market_ids.matrix, 1) = <<0, 0, 1, 1, 1>>
    /\ Len(ownership) = 5
    /\ Len(ownership[1]) = 3
    /\ ownership[1][3] = NaN /\ ownership[2][3] = NaN
    /\ \A i \in 3..5 : \A k \in 1..3 : ~ownership[i][k].nan

OwnershipValidated == pc \in {"raised", "own_stack", "own_done"}

FieldsPresent == product_data.market_ids.present /\ product_data.firm_ids.present

\* C8: KeyError when market_ids or firm_ids is absent; with both present,
\* the ValueError of line 174 when market_ids has more than one column; with
\* both present and one column of market IDs, the ValueError of line 182 when
\* kappa_specification is neither None nor callable.  A failing call has
\* computed no block, and the default cooperation function is in use only
\* when kappa_specification is None.
C8_OwnershipErrors ==
    OwnershipValidated =>
        /\ ~FieldsPresent => raised.type = "KeyError"
        /\ (FieldsPresent /\ Len(product_data.market_ids.matrix[1]) > 1)
               => raised = Error("ValueError", 174)
        /\ (FieldsPresent /\ Len(product_data.market_ids.matrix[1]) = 1
              /\ kappa_specification.kind = "other")
               => raised = Error("ValueError", 182)
        /\ raised # NoError => pc = "raised" /\ ownership = <<>>
        /\ kappa_specification.kind = "other" => raised # NoError
        /\ kappa = KappaCallable("default") => kappa_specification.kind = "None"

C8_Witness ==
    /\ pc = "raised"
    /\ FieldsPresent
    /\ kappa_specification.kind = "other"
    /\ raised = Error("ValueError", 182)
    /\ ownership = <<>>

----------------------------------------------------------------------------
(* Properties of build_blp_instruments.                                    *)

NumCharacteristics == Len(X[1])

SameMarket(r) == {s \in 1..NumRows : MarketOf(s) = MarketOf(r)}
SameFirm(r) == {s \in SameMarket(r) : FirmOf(s, firms_index + 1) = FirmOf(r, firms_index + 1)}

\* C9: the result is [X | other | rival], row by row in the order of the
\* table: other is the sum of X over the other rows of the same market and the
\* same firm (in the selected firm column), rival the sum of X over the rows
\* of the same market and a different firm, and other + rival + X is the sum
\* of X over the market.
C9_OtherAndRival ==
    pc = "blp_done" =>
        /\ Len(instruments) = NumRows
        /\ \A r \in 1..NumRows : \A c \in 1..NumCharacteristics :
               LET own == instruments[r][c]
                   other == instruments[r][NumCharacteristics + c]
                   rival == instruments[r][2 * NumCharacteristics + c]
               IN  /\ Len(instruments[r]) = 3 * NumCharacteristics
                   /\ own = X[r][c]
                   /\ other = SumOver(X, c, SameFirm(r) \ {r})
                   /\ rival = SumOver(X, c, SameMarket(r) \ SameFirm(r))
                   /\ other + rival + own = SumOver(X, c, SameMarket(r))

C9_Witness ==
    /\ pc = "blp_done"
    /\ \E r \in 1..NumRows :
           /\ SameFirm(r) # {r}
           /\ SameMarket(r) # SameFirm(r)
           /\ instruments[r][NumCharacteristics + 1] > 0
           /\ instruments[r][2 * NumCharacteristics + 1] > 0

====
